---- MODULE Spec2Model ----
(***************************************************************************)
(* neurokit2.eda.eda_intervalrelated: interval-related EDA features.       *)
(*                                                                         *)
(* The model follows src/neurokit2/eda/eda_intervalrelated.py statement by *)
(* statement.  A call of eda_intervalrelated is one action.  The only      *)
(* object that outlives a call is the default value of the parameter       *)
(* `output` of _eda_intervalrelated (line 84): Python evaluates a default  *)
(* once, at definition time, so every call that omits `output` works on    *)
(* the same dict.  The other variables describe the latest call.           *)
(***************************************************************************)
EXTENDS Integers, Sequences, FiniteSets, TLC

VARIABLES
    output_default,  \* the dict object bound as default of `output` (line 84)
    arg,             \* `data` as the caller passed it to the latest call
    data,            \* the same object once the call is over
    sampling_rate,   \* `sampling_rate` of the latest call
    results,         \* what the latest call returned (no table if it raised)
    raised,          \* the exception the latest call ended with, or "none"
    warnings,        \* the warnings issued during the latest call, in order
    symp_rets,       \* what eda_sympathetic returns, per table of the latest call
    symp_calls,      \* the invocations of eda_sympathetic during the latest call
    repeated,        \* the latest call had the arguments of the one before it
    same_out,        \* the latest call ended as the one before it did
    pending          \* the call described by arg, sampling_rate, symp_rets is still to be made

vars == <<output_default, arg, data, sampling_rate, symp_rets, results, raised,
          warnings, symp_calls, repeated, same_out, pending>>

(***************************************************************************)
(* Values.  Every cell of a table and every value of a record is one of:   *)
(* NaN, a rational n/d in lowest terms, the square root of a rational, or  *)
(* a string.  One record shape keeps all of them comparable.               *)
(***************************************************************************)
NaN == [k |-> "nan", n |-> 0, d |-> 1, s |-> ""]

Num(n) == [k |-> "num", n |-> n, d |-> 1, s |-> ""]

Str(s) == [k |-> "str", n |-> 0, d |-> 1, s |-> s]

IsNaN(v) == v.k = "nan"

Abs(n) == IF n < 0 THEN -n ELSE n

RECURSIVE Gcd(_, _)
Gcd(a, b) == IF b = 0 THEN a ELSE Gcd(b, a % b)

\* n/d with d > 0, in lowest terms
Frac(n, d) ==
    LET g == Gcd(Abs(n), d)
    IN  [k |-> "num", n |-> n \div g, d |-> d \div g, s |-> ""]

\* the non-negative square root of n/d
Sqrt(n, d) ==
    LET g == Gcd(Abs(n), d)
    IN  [k |-> "sqrt", n |-> n \div g, d |-> d \div g, s |-> ""]

(***************************************************************************)
(* Python dicts, as functions from keys to values.                         *)
(***************************************************************************)
EmptyDict == <<>>

\* d[key] = v
SetItem(d, key, v) ==
    [x \in DOMAIN d \cup {key} |-> IF x = key THEN v ELSE d[x]]

\* d.update(m): the keys of m win
DictUpdate(d, m) ==
    [x \in DOMAIN d \cup DOMAIN m |-> IF x \in DOMAIN m THEN m[x] ELSE d[x]]

(***************************************************************************)
(* numpy's NaN-tolerant reductions over a column of integers and NaN.      *)
(***************************************************************************)
RECURSIVE SumOfNumbers(_)
SumOfNumbers(xs) ==
    IF xs = <<>> THEN 0
    ELSE (IF IsNaN(Head(xs)) THEN 0 ELSE Head(xs).n) + SumOfNumbers(Tail(xs))

RECURSIVE SumOfSquares(_)
SumOfSquares(xs) ==
    IF xs = <<>> THEN 0
    ELSE (IF IsNaN(Head(xs)) THEN 0 ELSE Head(xs).n * Head(xs).n)
         + SumOfSquares(Tail(xs))

RECURSIVE CountOfNumbers(_)
CountOfNumbers(xs) ==
    IF xs = <<>> THEN 0
    ELSE (IF IsNaN(Head(xs)) THEN 0 ELSE 1) + CountOfNumbers(Tail(xs))

RECURSIVE PlainSum(_)
PlainSum(xs) ==
    IF xs = <<>> THEN Num(0)
    ELSE IF IsNaN(Head(xs)) \/ IsNaN(PlainSum(Tail(xs))) THEN NaN
    ELSE Num(Head(xs).n + PlainSum(Tail(xs)).n)

\* np.sum in place of np.nansum: a NaN entry makes the total NaN
np_sum(xs) == PlainSum(xs)

\* np.nansum: NaN entries count as zero; 0 for an empty or all-NaN column
np_nansum(xs) == Num(SumOfNumbers(xs))

\* a mean that leaves the NaN entries in the count
mean_over_len(xs) ==
    IF Len(xs) = 0
    THEN [value |-> NaN, warns |-> TRUE]
    ELSE [value |-> Frac(SumOfNumbers(xs), Len(xs)), warns |-> FALSE]

\* np.nanmean: sum over count of the non-NaN entries; with none of them the
\* result is NaN and numpy issues RuntimeWarning("Mean of empty slice")
np_nanmean(xs) ==
    IF CountOfNumbers(xs) = 0
    THEN [value |-> NaN, warns |-> TRUE]
    ELSE [value |-> Frac(SumOfNumbers(xs), CountOfNumbers(xs)), warns |-> FALSE]

\* np.nanstd (ddof = 0): the square root of the population variance of the
\* non-NaN entries; with none of them NaN and
\* RuntimeWarning("Degrees of freedom <= 0 for slice.")
np_nanstd(xs) ==
    LET c == CountOfNumbers(xs)
        s == SumOfNumbers(xs)
    IN  IF c = 0
        THEN [value |-> NaN, warns |-> TRUE]
        ELSE [value |-> Sqrt(c * SumOfSquares(xs) - s * s, c * c),
              warns |-> FALSE]

(***************************************************************************)
(* _eda_intervalrelated(data, output, sampling_rate), lines 84-120.        *)
(* A frame is [output, warnings, calls]: the dict being filled, and the    *)
(* warnings and collaborator invocations so far.  `item` is the position   *)
(* of the table in the caller's input; `ret` is what eda_sympathetic       *)
(* returns if it is invoked for this table.                                *)
(***************************************************************************)
Warning(category, about, item) ==
    [category |-> category, about |-> about, item |-> item]

\* lines 87, 90, 100, 110, 114, 116: `"X" in colnames`
HasColumn(tbl, name) == name \in DOMAIN tbl

\* a SCR Peaks block without its warn(...)
ScrPeaksSilent(tbl, fr, item) ==
    IF ~HasColumn(tbl, "SCR_Peaks")
    THEN [fr EXCEPT !.output = SetItem(@, "SCR_Peaks_N", NaN)]
    ELSE [fr EXCEPT !.output =
              SetItem(@, "SCR_Peaks_N", np_nansum(tbl["SCR_Peaks"]))]

\* a SCR Peaks block that adds to the count already in `output`
ScrPeaksAccumulate(tbl, fr, item) ==
    IF ~HasColumn(tbl, "SCR_Peaks")
    THEN [fr EXCEPT
              !.warnings = Append(@, Warning("NeuroKitWarning", "SCR_Peaks", item)),
              !.output = SetItem(@, "SCR_Peaks_N", NaN)]
    ELSE [fr EXCEPT !.output =
              SetItem(@, "SCR_Peaks_N",
                  IF "SCR_Peaks_N" \in DOMAIN fr.output
                     /\ fr.output["SCR_Peaks_N"].k = "num"
                  THEN Num(fr.output["SCR_Peaks_N"].n
                           + np_nansum(tbl["SCR_Peaks"]).n)
                  ELSE np_nansum(tbl["SCR_Peaks"]))]

\* lines 89-97
ScrPeaksStep(tbl, fr, item) ==
    IF ~HasColumn(tbl, "SCR_Peaks")
    THEN [fr EXCEPT
              !.warnings = Append(@, Warning("NeuroKitWarning", "SCR_Peaks", item)),
              !.output = SetItem(@, "SCR_Peaks_N", NaN)]
    ELSE [fr EXCEPT !.output =
              SetItem(@, "SCR_Peaks_N", np_nansum(tbl["SCR_Peaks"]))]

\* lines 99-107
AmplitudeStep(tbl, fr, item) ==
    IF ~HasColumn(tbl, "SCR_Amplitude")
    THEN [fr EXCEPT
              !.warnings = Append(@, Warning("NeuroKitWarning", "SCR_Amplitude", item)),
              !.output = SetItem(@, "SCR_Peaks_Amplitude_Mean", NaN)]
    ELSE LET m == np_nanmean(tbl["SCR_Amplitude"])
         IN  [fr EXCEPT
                  !.warnings = IF m.warns
                               THEN Append(@, Warning("RuntimeWarning", "SCR_Amplitude", item))
                               ELSE @,
                  !.output = SetItem(@, "SCR_Peaks_Amplitude_Mean", m.value)]

\* lines 109-111
TonicStep(tbl, fr, item) ==
    IF HasColumn(tbl, "EDA_Tonic")
    THEN LET sd == np_nanstd(tbl["EDA_Tonic"])
         IN  [fr EXCEPT
                  !.warnings = IF sd.warns
                               THEN Append(@, Warning("RuntimeWarning", "EDA_Tonic", item))
                               ELSE @,
                  !.output = SetItem(@, "EDA_Tonic_SD", sd.value)]
    ELSE fr

\* line 11 and line 84: the default of `sampling_rate`
DefaultSamplingRate == 1000

\* one invocation eda_sympathetic(data[channel], sampling_rate=sr) -> ret
SympatheticCall(tbl, channel, sr, ret, item) ==
    [item |-> item, channel |-> channel, signal |-> tbl[channel],
     sampling_rate |-> sr, returned |-> ret]

\* a sympathetic block that reads the raw signal first
SympatheticRawFirst(tbl, fr, item, sr, ret) ==
    IF HasColumn(tbl, "EDA_Raw")
    THEN [fr EXCEPT
              !.calls = Append(@, SympatheticCall(tbl, "EDA_Raw", sr, ret, item)),
              !.output = DictUpdate(@, ret)]
    ELSE IF HasColumn(tbl, "EDA_Clean")
    THEN [fr EXCEPT
              !.calls = Append(@, SympatheticCall(tbl, "EDA_Clean", sr, ret, item)),
              !.output = DictUpdate(@, ret)]
    ELSE fr

\* lines 113-118
SympatheticStep(tbl, fr, item, sr, ret) ==
    IF HasColumn(tbl, "EDA_Clean")
    THEN [fr EXCEPT
              !.calls = Append(@, SympatheticCall(tbl, "EDA_Clean", sr, ret, item)),
              !.output = DictUpdate(@, ret)]
    ELSE IF HasColumn(tbl, "EDA_Raw")
    THEN [fr EXCEPT
              !.calls = Append(@, SympatheticCall(tbl, "EDA_Raw", sr, ret, item)),
              !.output = DictUpdate(@, ret)]
    ELSE fr

\* lines 84-120: the four blocks in order, on the dict passed as `output`
eda_intervalrelated_internal(tbl, output, sr, ret, item) ==
    SympatheticStep(tbl,
        TonicStep(tbl,
            AmplitudeStep(tbl,
                ScrPeaksStep(tbl,
                    [output |-> output, warnings |-> <<>>, calls |-> <<>>],
                    item),
                item),
            item),
        item, sr, ret)

(***************************************************************************)
(* eda_intervalrelated(data, sampling_rate), lines 58-76.                  *)
(* The caller's `data` is [kind, items]: a DataFrame is one item, a dict   *)
(* is its (index, table) pairs in iteration order.  A result table is      *)
(* the sequence of its rows, each [index, rec] with rec defined on every   *)
(* column of the table.                                                    *)
(***************************************************************************)
NoResult == [returned |-> FALSE, rows |-> <<>>]

Returned(rows) == [returned |-> TRUE, rows |-> rows]

\* line 61: pd.DataFrame.from_dict(results, orient="index").T on a dict of
\* scalars: one row, indexed 0, one column per key
FromDictTransposed(rec) == <<[index |-> "0", rec |-> rec]>>

\* line 74: pd.DataFrame.from_dict(results, orient="index") on a dict of
\* dicts: one row per outer key, in order; the columns are the union of the
\* inner keys, and a row that lacks a key holds NaN in that column
FromDictIndex(rows) ==
    LET columns == UNION {DOMAIN rows[i].rec : i \in DOMAIN rows}
    IN  [i \in DOMAIN rows |->
            [index |-> rows[i].index,
             rec |-> [c \in columns |->
                        IF c \in DOMAIN rows[i].rec THEN rows[i].rec[c] ELSE NaN]]]

\* a loop body that goes on filling the container of the iteration before
DictIterationShared(acc, index, tbl, sr, ret, item) ==
    IF ~HasColumn(tbl, "Label") THEN [acc EXCEPT !.raised = "KeyError"]
    ELSE IF Len(tbl["Label"]) = 0 THEN [acc EXCEPT !.raised = "IndexError"]
    ELSE LET container == IF acc.rows = <<>> THEN EmptyDict
                          ELSE acc.rows[Len(acc.rows)].rec
             labelled == SetItem(container, "Label", tbl["Label"][1])
             fr == eda_intervalrelated_internal(tbl, labelled, sr, ret, item)
         IN  [acc EXCEPT !.rows = Append(@, [index |-> index, rec |-> fr.output]),
                         !.warnings = @ \o fr.warnings,
                         !.calls = @ \o fr.calls]

\* lines 65-72, one iteration of `for index in data`:
\*   results[index] = {}
\*   results[index]["Label"] = data[index]["Label"].iloc[0]   (KeyError without
\*       a Label column, IndexError on an empty one)
\*   results[index] = _eda_intervalrelated(data[index], results[index], ...)
DictIteration(acc, index, tbl, sr, ret, item) ==
    IF ~HasColumn(tbl, "Label") THEN [acc EXCEPT !.raised = "KeyError"]
    ELSE IF Len(tbl["Label"]) = 0 THEN [acc EXCEPT !.raised = "IndexError"]
    ELSE LET labelled == SetItem(EmptyDict, "Label", tbl["Label"][1])
             fr == eda_intervalrelated_internal(tbl, labelled, sr, ret, item)
         IN  [acc EXCEPT !.rows = Append(@, [index |-> index, rec |-> fr.output]),
                         !.warnings = @ \o fr.warnings,
                         !.calls = @ \o fr.calls]

\* lines 63-72: the loop, left at the first exception
RECURSIVE DictLoop(_, _, _, _, _)
DictLoop(items, i, sr, rets, acc) ==
    IF i > Len(items) \/ acc.raised # "none" THEN acc
    ELSE DictLoop(items, i + 1, sr, rets,
             DictIteration(acc, items[i].index, items[i].table, sr, rets[i], i))

\* lines 59-61: the DataFrame branch; `output` is omitted, so the internal
\* function fills, and returns, the dict `default`
FrameBranch(d, sr, rets, default) ==
    LET fr == eda_intervalrelated_internal(d.items[1].table, default, sr, rets[1], 1)
    IN  [default |-> fr.output,
         data |-> d,
         results |-> Returned(FromDictTransposed(fr.output)),
         raised |-> "none",
         warnings |-> fr.warnings,
         calls |-> fr.calls]

\* lines 62-74: the dict branch
DictBranch(d, sr, rets, default) ==
    LET acc == DictLoop(d.items, 1, sr, rets,
                   [rows |-> <<>>, warnings |-> <<>>, calls |-> <<>>,
                    raised |-> "none"])
    IN  [default |-> default,
         data |-> d,
         results |-> IF acc.raised = "none"
                     THEN Returned(FromDictIndex(acc.rows)) ELSE NoResult,
         raised |-> acc.raised,
         warnings |-> acc.warnings,
         calls |-> acc.calls]

\* lines 11-76: the outcome of eda_intervalrelated(d, sampling_rate=sr) when
\* the default dict is `default` and eda_sympathetic returns rets[i] for the
\* i-th table
eda_intervalrelated(d, sr, rets, default) ==
    IF d.kind = "DataFrame" THEN FrameBranch(d, sr, rets, default)
    ELSE DictBranch(d, sr, rets, default)

(***************************************************************************)
(* Inputs.  An input is [d, sr, rets]: the caller's data and sampling      *)
(* rate, and what eda_sympathetic returns for each table that has a        *)
(* signal.                                                                 *)
(***************************************************************************)
NoData == [kind |-> "none", items |-> <<>>]

DataFrame(tbl) == [kind |-> "DataFrame", items |-> <<[index |-> "0", table |-> tbl]>>]

Dict(labels, tbls) ==
    [kind |-> "dict",
     items |-> [i \in 1..Len(labels) |-> [index |-> labels[i], table |-> tbls[i]]]]

\* the tables with or without column `name`, its values drawn from `vals`
Optional(name, vals) == {EmptyDict} \cup {[c \in {name} |-> v] : v \in vals}

Join(A, B) == {a @@ b : a \in A, b \in B}

\* the sequences over S of length at most n
RECURSIVE SeqsUpTo(_, _)
SeqsUpTo(S, n) ==
    IF n = 0 THEN {<<>>}
    ELSE SeqsUpTo(S, n - 1)
         \cup {Append(xs, x) : xs \in {ys \in SeqsUpTo(S, n - 1) : Len(ys) = n - 1}, x \in S}

\* `sampling_rate`: the value of the docstring's example, and the default
SamplingRates == {100, DefaultSamplingRate}

\* whether eda_sympathetic has a signal to be invoked on
HasSignal(tbl) == HasColumn(tbl, "EDA_Clean") \/ HasColumn(tbl, "EDA_Raw")

\* what the collaborator returns: a mapping of the sympathetic features
SympKeys == {"EDA_Sympathetic", "EDA_SympatheticN"}

SympRets == {[key \in SympKeys |-> Num(1)], [key \in SympKeys |-> Num(2)]}

\* nothing returned: the collaborator is not invoked
NoRet == EmptyDict

\* what the collaborator returns per table: rets[i] for a table with a signal
Returns(tbls, rets) ==
    [i \in DOMAIN tbls |-> IF HasSignal(tbls[i]) THEN rets[i] ELSE NoRet]

Input(d, sr, rets) == [d |-> d, sr |-> sr, rets |-> rets]

FrameInput(tbl, sr, ret) == Input(DataFrame(tbl), sr, Returns(<<tbl>>, <<ret>>))

DictInput(labels, tbls, sr, rets) == Input(Dict(labels, tbls), sr, Returns(tbls, rets))

\* every subset of the five channels, one content per channel
Tables ==
    Join(Optional("SCR_Peaks", {<<Num(1), NaN, Num(1)>>}),
    Join(Optional("SCR_Amplitude", {<<Num(2), NaN, Num(4)>>}),
    Join(Optional("EDA_Tonic", {<<Num(1), Num(3)>>}),
    Join(Optional("EDA_Clean", {<<Num(5), Num(6)>>}),
         Optional("EDA_Raw", {<<Num(7), Num(8)>>})))))

\* the same tables as epochs: with a Label column
Epochs == Join(Tables, {[c \in {"Label"} |-> <<Str("x"), Str("x")>>]})

\* the inputs of a sequence of calls: every table as a DataFrame; as a dict
\* of one epoch, the fullest and the emptiest epoch, one with the tonic and
\* the raw signal only, and a table that has no Label column
SequenceDictTables ==
    {t \in Epochs : DOMAIN t \in {{"Label"}, {"Label", "EDA_Tonic", "EDA_Raw"}}
                    \/ Cardinality(DOMAIN t) = 6}
    \cup {t \in Tables : Cardinality(DOMAIN t) = 5}

SequenceInputs ==
    {FrameInput(tbl, sr, ret) : tbl \in Tables, sr \in SamplingRates, ret \in SympRets}
    \cup {DictInput(<<"A">>, <<tbl>>, sr, <<ret>>) :
              tbl \in SequenceDictTables, sr \in SamplingRates, ret \in SympRets}

\* the longest column of the exhaustive inputs
MaxLen == 3

\* tables with the three aggregated channels: every column of 0, 1 and NaN
\* up to MaxLen for SCR_Peaks (and the documented [1, 0, 1, NaN, 1]), every
\* column of 2, 4 and NaN for SCR_Amplitude, a few columns for EDA_Tonic
AggTables ==
    Join(Optional("SCR_Peaks",
             SeqsUpTo({Num(0), Num(1), NaN}, MaxLen)
             \cup {<<Num(1), Num(0), Num(1), NaN, Num(1)>>}),
    Join(Optional("SCR_Amplitude", SeqsUpTo({Num(2), Num(4), NaN}, MaxLen)),
         Optional("EDA_Tonic", {<<>>, <<NaN, NaN>>, <<Num(1), Num(3)>>, <<NaN, Num(2)>>})))

\* the Label column of an epoch: absent, empty, or with first value x or y
LabelColumns == {<<>>, <<Str("x"), Str("x")>>, <<Str("y"), Str("x")>>}

\* every subset of the six columns
LabelledTables == Join(Tables, Optional("Label", LabelColumns))

Labels == {"A", "B"}

\* the key orders of a dict with keys among Labels
LabelSeqs ==
    {ls \in SeqsUpTo(Labels, Cardinality(Labels)) :
        \A i, j \in DOMAIN ls : ls[i] = ls[j] => i = j}

\* a collaborator free to return any keys, those of the record included
MergeKeys == {"EDA_Sympathetic", "SCR_Peaks_N", "Label"}

MergeRets == UNION {[K -> {Num(9)}] : K \in SUBSET MergeKeys}

MergeDictTables ==
    {t \in Epochs : {"SCR_Peaks", "SCR_Amplitude", "EDA_Tonic"} \subseteq DOMAIN t}


(***************************************************************************)
(* State machine: a sequence of calls of eda_intervalrelated.              *)
(***************************************************************************)
Init ==
    /\ output_default = EmptyDict
    /\ arg = NoData
    /\ data = NoData
    /\ sampling_rate = DefaultSamplingRate
    /\ symp_rets = <<>>
    /\ results = NoResult
    /\ raised = "none"
    /\ warnings = <<>>
    /\ symp_calls = <<>>
    /\ repeated = FALSE
    /\ same_out = FALSE
    /\ pending = FALSE

\* a call eda_intervalrelated(df, sampling_rate=sr) on a DataFrame
FrameCall ==
    \E in \in SequenceInputs :
        /\ in.d.kind = "DataFrame"
        /\ \E r \in {eda_intervalrelated(in.d, in.sr, in.rets, output_default)} :
            /\ output_default' = r.default
            /\ arg' = in.d
            /\ data' = r.data
            /\ sampling_rate' = in.sr
            /\ symp_rets' = in.rets
            /\ results' = r.results
            /\ raised' = r.raised
            /\ warnings' = r.warnings
            /\ symp_calls' = r.calls
            /\ repeated' = (arg = in.d /\ sampling_rate = in.sr /\ symp_rets = in.rets)
            /\ same_out' = (results = r.results /\ raised = r.raised)
            /\ pending' = FALSE

\* a call eda_intervalrelated(epochs, sampling_rate=sr) on a dict
DictCall ==
    \E in \in SequenceInputs :
        /\ in.d.kind = "dict"
        /\ \E r \in {eda_intervalrelated(in.d, in.sr, in.rets, output_default)} :
            /\ output_default' = r.default
            /\ arg' = in.d
            /\ data' = r.data
            /\ sampling_rate' = in.sr
            /\ symp_rets' = in.rets
            /\ results' = r.results
            /\ raised' = r.raised
            /\ warnings' = r.warnings
            /\ symp_calls' = r.calls
            /\ repeated' = (arg = in.d /\ sampling_rate = in.sr /\ symp_rets = in.rets)
            /\ same_out' = (results = r.results /\ raised = r.raised)
            /\ pending' = FALSE

Next == FrameCall \/ DictCall

Spec == Init /\ [][Next]_vars

(***************************************************************************)
(* One call, on an input drawn by the initial state.                       *)
(***************************************************************************)
Drawn(in) ==
    /\ output_default = EmptyDict
    /\ arg = in.d
    /\ data = in.d
    /\ sampling_rate = in.sr
    /\ symp_rets = in.rets
    /\ results = NoResult
    /\ raised = "none"
    /\ warnings = <<>>
    /\ symp_calls = <<>>
    /\ repeated = FALSE
    /\ same_out = FALSE
    /\ pending = TRUE

\* the call eda_intervalrelated(arg, sampling_rate=sampling_rate)
Run ==
    /\ pending
    /\ \E r \in {eda_intervalrelated(arg, sampling_rate, symp_rets, output_default)} :
        /\ output_default' = r.default
        /\ data' = r.data
        /\ results' = r.results
        /\ raised' = r.raised
        /\ warnings' = r.warnings
        /\ symp_calls' = r.calls
        /\ pending' = FALSE
        /\ UNCHANGED <<arg, sampling_rate, symp_rets, repeated, same_out>>

\* a DataFrame of AggTables, or a dict of LabelledTables
InitOnce ==
    \/ \E tbl \in AggTables, sr \in SamplingRates, ret \in SympRets :
           Drawn(FrameInput(tbl, sr, ret))
    \/ \E labels \in LabelSeqs, sr \in SamplingRates :
           \E tbls \in [1..Len(labels) -> LabelledTables],
              rets \in [1..Len(labels) -> SympRets] :
               Drawn(DictInput(labels, tbls, sr, rets))

NextOnce == Run

SpecOnce == InitOnce /\ [][NextOnce]_vars

\* a DataFrame of Tables, or a dict of MergeDictTables
InitMerge ==
    \/ \E tbl \in Tables, sr \in SamplingRates, ret \in MergeRets :
           Drawn(FrameInput(tbl, sr, ret))
    \/ \E labels \in LabelSeqs, sr \in SamplingRates :
           \E tbls \in [1..Len(labels) -> MergeDictTables],
              rets \in [1..Len(labels) -> MergeRets] :
               Drawn(DictInput(labels, tbls, sr, rets))

NextMerge == Run

SpecMerge == InitMerge /\ [][NextMerge]_vars

(***************************************************************************)
(* Properties.                                                             *)
(***************************************************************************)
\* a call has been made and its outcome is in the state
Called == ~pending /\ arg.kind # "none"

\* the call returned a table with one row per table of the input
Answered == Called /\ results.returned /\ Len(results.rows) = Len(arg.items)

Items == DOMAIN arg.items

TableOf(i) == arg.items[i].table

RowOf(i) == results.rows[i].rec

AllNaN(xs) == \A j \in DOMAIN xs : IsNaN(xs[j])

RECURSIVE TotalOver(_, _)
TotalOver(xs, idx) ==
    IF idx = {} THEN 0
    ELSE LET j == CHOOSE j \in idx : TRUE
         IN  xs[j].n + TotalOver(xs, idx \ {j})

\* the indices, and the total, of the entries of xs that are numbers
NumberIndices(xs) == {j \in DOMAIN xs : ~IsNaN(xs[j])}

NumberTotal(xs) == TotalOver(xs, NumberIndices(xs))

\* the keys a table's own record has, and their values
OwnKeys(i) ==
    {"SCR_Peaks_N", "SCR_Peaks_Amplitude_Mean"}
    \cup (IF HasColumn(TableOf(i), "EDA_Tonic") THEN {"EDA_Tonic_SD"} ELSE {})
    \cup (IF HasSignal(TableOf(i)) THEN DOMAIN symp_rets[i] ELSE {})
    \cup (IF arg.kind = "dict" THEN {"Label"} ELSE {})

OwnValue(i, key) ==
    IF HasSignal(TableOf(i)) /\ key \in DOMAIN symp_rets[i] THEN symp_rets[i][key]
    ELSE IF key = "Label" THEN TableOf(i)["Label"][1]
    ELSE IF key = "SCR_Peaks_N"
    THEN (IF HasColumn(TableOf(i), "SCR_Peaks")
          THEN Num(NumberTotal(TableOf(i)["SCR_Peaks"])) ELSE NaN)
    ELSE IF key = "SCR_Peaks_Amplitude_Mean"
    THEN (IF HasColumn(TableOf(i), "SCR_Amplitude")
             /\ NumberIndices(TableOf(i)["SCR_Amplitude"]) # {}
          THEN Frac(NumberTotal(TableOf(i)["SCR_Amplitude"]),
                    Cardinality(NumberIndices(TableOf(i)["SCR_Amplitude"])))
          ELSE NaN)
    ELSE np_nanstd(TableOf(i)["EDA_Tonic"]).value

\* the invocations of eda_sympathetic made for the i-th table
CallsFor(i) == {j \in DOMAIN symp_calls : symp_calls[j].item = i}

(* C1: the result of a call depends only on that call's arguments and on    *)
(* what the collaborator returns during it: it is the result the same call  *)
(* gives when it is the first call ever made (the default dict still empty) *)
C1_Stateless ==
    Called =>
        LET first == eda_intervalrelated(arg, sampling_rate, symp_rets, EmptyDict)
        IN  results = first.results /\ raised = first.raised

(* C2: in the returned record of a table, the key EDA_Tonic_SD is present   *)
(* exactly when the table has an EDA_Tonic column                           *)
C2_TonicKey ==
    Answered =>
        \A i \in Items :
            ("EDA_Tonic_SD" \in DOMAIN RowOf(i)) <=> HasColumn(TableOf(i), "EDA_Tonic")

(* C3: for a table with neither EDA_Clean nor EDA_Raw, eda_sympathetic is   *)
(* not invoked and the record's keys are SCR_Peaks_N,                       *)
(* SCR_Peaks_Amplitude_Mean, EDA_Tonic_SD if EDA_Tonic is present and Label *)
(* if the input is a dict, and no other                                     *)
C3_NoSignalNoFeature ==
    Answered =>
        \A i \in Items :
            ~HasSignal(TableOf(i)) =>
                /\ CallsFor(i) = {}
                /\ DOMAIN RowOf(i) =
                       {"SCR_Peaks_N", "SCR_Peaks_Amplitude_Mean"}
                       \cup (IF HasColumn(TableOf(i), "EDA_Tonic")
                             THEN {"EDA_Tonic_SD"} ELSE {})
                       \cup (IF arg.kind = "dict" THEN {"Label"} ELSE {})

(* C4: whatever columns the tables of the input carry, the call raises no   *)
(* exception and returns a result table                                     *)
C4_NeverRaises == Called => raised = "none" /\ results.returned

\* the warnings eda_intervalrelated itself issues for the tables from the
\* i-th on: one per absent SCR_Peaks, one per absent SCR_Amplitude
RECURSIVE MissingChannelWarnings(_)
MissingChannelWarnings(i) ==
    IF i > Len(arg.items) THEN <<>>
    ELSE (IF HasColumn(TableOf(i), "SCR_Peaks") THEN <<>>
          ELSE <<Warning("NeuroKitWarning", "SCR_Peaks", i)>>)
         \o (IF HasColumn(TableOf(i), "SCR_Amplitude") THEN <<>>
             ELSE <<Warning("NeuroKitWarning", "SCR_Amplitude", i)>>)
         \o MissingChannelWarnings(i + 1)

IsMissingChannelWarning(w) == w.category = "NeuroKitWarning"

\* a table without SCR_Peaks (without SCR_Amplitude) gets NaN for that
\* feature, and every other feature of its record is computed all the same
C5_FeaturesDespiteAbsence ==
    \A i \in Items :
        /\ ~HasColumn(TableOf(i), "SCR_Peaks") => RowOf(i)["SCR_Peaks_N"] = NaN
        /\ ~HasColumn(TableOf(i), "SCR_Amplitude") =>
               RowOf(i)["SCR_Peaks_Amplitude_Mean"] = NaN
        /\ ~HasColumn(TableOf(i), "SCR_Peaks") \/ ~HasColumn(TableOf(i), "SCR_Amplitude") =>
               \A key \in OwnKeys(i) :
                   key \in DOMAIN RowOf(i) /\ RowOf(i)[key] = OwnValue(i, key)

(* C5, as stated: an absent SCR_Peaks or SCR_Amplitude gives NaN for its    *)
(* feature and leaves the others computed; the warnings of a call are       *)
(* exactly one per absent channel per table, and there is no other warning  *)
C5_OnlyMissingChannelWarnings ==
    Answered =>
        /\ C5_FeaturesDespiteAbsence
        /\ warnings = MissingChannelWarnings(1)

(* C5, amended: an absent SCR_Peaks or SCR_Amplitude gives NaN for its      *)
(* feature and leaves the others computed; the warnings that                *)
(* eda_intervalrelated issues itself (NeuroKitWarning) are exactly one per  *)
(* absent channel per table; any other warning is numpy's RuntimeWarning,   *)
(* issued once for a present SCR_Amplitude or EDA_Tonic column that has no  *)
(* entry other than NaN                                                     *)
C5_MissingChannelWarnings ==
    Answered =>
        /\ C5_FeaturesDespiteAbsence
        /\ SelectSeq(warnings, IsMissingChannelWarning) = MissingChannelWarnings(1)
        /\ \A j \in DOMAIN warnings :
               ~IsMissingChannelWarning(warnings[j]) =>
                   /\ warnings[j].category = "RuntimeWarning"
                   /\ warnings[j].about \in {"SCR_Amplitude", "EDA_Tonic"}
                   /\ warnings[j].item \in Items
                   /\ HasColumn(TableOf(warnings[j].item), warnings[j].about)
                   /\ AllNaN(TableOf(warnings[j].item)[warnings[j].about])
                   /\ \A h \in DOMAIN warnings : warnings[h] = warnings[j] => h = j

\* a dict of two tables, the second without SCR_Peaks and without
\* SCR_Amplitude but with a tonic component and a signal: two warnings, and a
\* full record
C5_Witness ==
    /\ Answered
    /\ arg.kind = "dict"
    /\ Len(arg.items) = 2
    /\ DOMAIN TableOf(1) = {"Label", "SCR_Peaks", "SCR_Amplitude"}
    /\ DOMAIN TableOf(2) = {"Label", "EDA_Tonic", "EDA_Raw"}
    /\ warnings = <<Warning("NeuroKitWarning", "SCR_Peaks", 2),
                    Warning("NeuroKitWarning", "SCR_Amplitude", 2)>>
    /\ RowOf(2)["SCR_Peaks_N"] = NaN
    /\ RowOf(2)["EDA_Tonic_SD"] = Sqrt(1, 1)
    /\ RowOf(2)["EDA_Sympathetic"] = Num(2)

C7_SympatheticOnceCleanFirst ==
    Answered =>
        \A i \in Items :
            LET channel == IF HasColumn(TableOf(i), "EDA_Clean") THEN "EDA_Clean"
                           ELSE "EDA_Raw"
            IN  IF HasSignal(TableOf(i))
                THEN /\ Cardinality(CallsFor(i)) = 1
                     /\ \A j \in CallsFor(i) :
                            /\ symp_calls[j].channel = channel
                            /\ symp_calls[j].signal = TableOf(i)[channel]
                            /\ symp_calls[j].sampling_rate = sampling_rate
                            /\ symp_calls[j].returned = symp_rets[i]
                     /\ \A key \in DOMAIN symp_rets[i] :
                            key \in DOMAIN RowOf(i) /\ RowOf(i)[key] = symp_rets[i][key]
                ELSE CallsFor(i) = {}

\* a table with both signals, the collaborator returning SCR_Peaks_N and
\* Label among its keys: one invocation, on EDA_Clean, and the returned
\* values in the record
C7_Witness ==
    /\ Answered
    /\ arg.kind = "dict"
    /\ Len(arg.items) = 2
    /\ HasColumn(TableOf(1), "EDA_Clean") /\ HasColumn(TableOf(1), "EDA_Raw")
    /\ HasColumn(TableOf(1), "SCR_Peaks")
    /\ sampling_rate = 100
    /\ DOMAIN symp_rets[1] = MergeKeys
    /\ Len(symp_calls) = Len(arg.items)
    /\ symp_calls[1].channel = "EDA_Clean"
    /\ symp_calls[1].signal = <<Num(5), Num(6)>>
    /\ symp_calls[1].sampling_rate = 100
    /\ RowOf(1)["SCR_Peaks_N"] = Num(9)
    /\ RowOf(1)["Label"] = Num(9)

(* C8: a call with the input of the call before it (the same data and       *)
(* sampling_rate, the collaborator returning the same) ends as that call    *)
(* did, with an equal result; and after any call the input is what the      *)
(* caller passed                                                            *)
C8_Idempotent ==
    /\ repeated => same_out
    /\ data = arg

\* a DataFrame without tonic component analysed twice in a row, after a call
\* that left an EDA_Tonic_SD in the default dict
C8_Witness ==
    /\ Called
    /\ repeated
    /\ same_out
    /\ results.returned
    /\ arg.kind = "DataFrame"
    /\ DOMAIN TableOf(1) = {"SCR_Peaks", "EDA_Clean"}
    /\ "EDA_Tonic_SD" \in DOMAIN RowOf(1)

(* C9: for a table with an SCR_Peaks column, SCR_Peaks_N is the total of    *)
(* the entries that are not NaN: 0 for an empty or an all-NaN column, 3 for *)
(* [1, 0, 1, NaN, 1]                                                        *)
C9_PeaksCount ==
    Answered =>
        \A i \in Items :
            HasColumn(TableOf(i), "SCR_Peaks") =>
                LET peaks == TableOf(i)["SCR_Peaks"]
                IN  /\ RowOf(i)["SCR_Peaks_N"] = Num(NumberTotal(peaks))
                    /\ AllNaN(peaks) => RowOf(i)["SCR_Peaks_N"] = Num(0)
                    /\ peaks = <<Num(1), Num(0), Num(1), NaN, Num(1)>> =>
                           RowOf(i)["SCR_Peaks_N"] = Num(3)

\* the documented column, and its count
C9_Witness ==
    /\ Answered
    /\ arg.kind = "DataFrame"
    /\ HasColumn(TableOf(1), "SCR_Peaks")
    /\ TableOf(1)["SCR_Peaks"] = <<Num(1), Num(0), Num(1), NaN, Num(1)>>
    /\ RowOf(1)["SCR_Peaks_N"] = Num(3)

(* C10: for a table with an SCR_Amplitude column, SCR_Peaks_Amplitude_Mean  *)
(* is the total of the entries that are not NaN over their number; with no  *)
(* such entry it is NaN, the value it has when the column is absent, and    *)
(* the call raises nothing                                                  *)
C10_AmplitudeMean ==
    Called =>
        /\ (\A i \in Items : HasColumn(TableOf(i), "Label")
                             /\ TableOf(i)["Label"] # <<>>) \/ arg.kind = "DataFrame"
               => Answered
        /\ Answered =>
               \A i \in Items :
                   LET mean == RowOf(i)["SCR_Peaks_Amplitude_Mean"]
                   IN  IF HasColumn(TableOf(i), "SCR_Amplitude")
                          /\ NumberIndices(TableOf(i)["SCR_Amplitude"]) # {}
                       THEN /\ mean.k = "num"
                            /\ mean.n * Cardinality(NumberIndices(TableOf(i)["SCR_Amplitude"]))
                                   = mean.d * NumberTotal(TableOf(i)["SCR_Amplitude"])
                            /\ Gcd(Abs(mean.n), mean.d) = 1
                       ELSE mean = NaN

\* the documented column, and its mean
C10_Witness ==
    /\ Answered
    /\ arg.kind = "DataFrame"
    /\ HasColumn(TableOf(1), "SCR_Amplitude")
    /\ TableOf(1)["SCR_Amplitude"] = <<NaN, Num(2), Num(4)>>
    /\ RowOf(1)["SCR_Peaks_Amplitude_Mean"] = Num(3)

====
